---- MODULE Spec2Model ----
(***************************************************************************)
(* Model of rust/tw_bitcoin/src/entry.rs: the BitcoinEntry coin entry.     *)
(* One request (proto) is handed to one of the three entry points,         *)
(* preimage_hashes, sign and compile; the state records the call made and   *)
(* what it returned, or that it panicked (todo!(), panic!(), unwrap()).     *)
(*                                                                         *)
(* Byte strings are modelled by what they hold: a signature is a record of *)
(* its scheme, key, message and trailing sighash-type byte; a script is    *)
(* the sequence of its pushes; a digest is a record of what it commits to. *)
(* Amounts stay far below 2^64, so no u64 sum in the code wraps here.      *)
(***************************************************************************)
EXTENDS Integers, Sequences, FiniteSets, TLC

\* Bounds of the model.
MaxInputs == 2
MaxOutputs == 1
MaxAmount == 2
MaxLockTime == 1

VARIABLES
    proto,              \* the Proto::SigningInput of the call
    op,                 \* the entry point called: "idle" before any call
    pre_signed,         \* the PreSigningOutput (of preimage_hashes, or inside sign)
    signatures,         \* the signatures vector handed to compile
    utxo_input_claims,  \* compile's vector of TxInClaim
    signing_output      \* the SigningOutput of sign or compile

vars == <<proto, op, pre_signed, signatures, utxo_input_claims, signing_output>>

----------------------------------------------------------------------------
\* Small helpers.

RECURSIVE SumSeq(_)
SumSeq(s) == IF s = <<>> THEN 0 ELSE Head(s) + SumSeq(Tail(s))

Amounts(s) == [i \in 1..Len(s) |-> s[i].amount]

----------------------------------------------------------------------------
\* The request.

SelectorTypes == {"UseAll", "AutomaticAscending"}

BuilderInputVariants ==
    {"p2sh", "p2pkh", "p2wsh", "p2wpkh", "p2tr_key_path", "p2tr_script_path"}

InputVariants == BuilderInputVariants \cup {"custom"}

RecipientTypes ==
    {"script_pubkey", "p2sh", "p2pkh", "p2wsh", "p2wpkh", "p2tr_key_path",
     "p2tr_script_path", "from_address"}

\* An input spends outpoint (txid, vout); the requests of the model give the
\* i-th declared input vout = i of one previous transaction.
ProtoInput(vout, amount, variant) ==
    [txid |-> 1, vout |-> vout, amount |-> amount, one_prevout |-> FALSE,
     variant |-> variant]

ProtoOutput(amount, to_recipient) ==
    [amount |-> amount, to_recipient |-> to_recipient]

InputLists(variants, amounts) ==
    UNION {{[i \in 1..k |-> ProtoInput(i, a[i], v[i])] :
                a \in [1..k -> amounts], v \in [1..k -> variants]} :
           k \in 0..MaxInputs}

OutputLists(recipients, amounts) ==
    UNION {{[i \in 1..k |-> ProtoOutput(a[i], r[i])] :
                a \in [1..k -> amounts], r \in [1..k -> recipients]} :
           k \in 0..MaxOutputs}

LockTimeNone == [kind |-> "None", value |-> 0]

SigningInput(selector, lock_time, inputs, outputs) ==
    [version |-> 2, lock_time |-> lock_time, private_key |-> "sk",
     input_selector |-> selector, inputs |-> inputs, outputs |-> outputs]

\* Requests that vary the amounts: spendable inputs, raw-script recipients.
AmountRequests ==
    {SigningInput(s, LockTimeNone, i, o) :
        s \in SelectorTypes,
        i \in InputLists({"p2pkh", "p2tr_key_path"}, 0..MaxAmount),
        o \in OutputLists({"script_pubkey"}, 0..MaxAmount)}

\* Requests that vary the variants of the inputs and of the recipients.
VariantRequests ==
    {SigningInput(s, LockTimeNone, i, o) :
        s \in SelectorTypes,
        i \in InputLists(InputVariants, {0}),
        o \in OutputLists(RecipientTypes, {0})}

\* The lock_time oneof of a request: none, a block height, unix seconds.
LockTimes ==
    {LockTimeNone}
        \cup {[kind |-> "blocks", value |-> v] : v \in 1..MaxLockTime}
        \cup {[kind |-> "seconds", value |-> v] : v \in 1..MaxLockTime}

\* Requests that vary the lock time: spendable inputs of amount 0.
LockTimeRequests ==
    {SigningInput(s, l, i, o) :
        s \in SelectorTypes,
        l \in LockTimes,
        i \in InputLists({"p2wpkh", "p2tr_key_path"}, {0}),
        o \in OutputLists({"script_pubkey"}, {0})}

Requests == AmountRequests \cup VariantRequests \cup LockTimeRequests

----------------------------------------------------------------------------
\* Byte strings.

\* What a 32-byte sighash commits to (the part of it the model tells apart).
NoMsg == [method |-> "", txid |-> 0, vout |-> 0, lock_time |-> 0]

\* A byte string that is not a signature: a pubkey hash, a script payload,
\* a control block.
Bytes(kind) ==
    [kind |-> kind, scheme |-> "", key |-> "", msg |-> NoMsg, suffix |-> <<>>]

\* A serialized signature: the signature itself, made over msg with key under
\* scheme, followed by the bytes of suffix (the sighash-type byte, if any).
SignatureBytes(scheme, key, msg, suffix) ==
    [kind |-> "sig", scheme |-> scheme, key |-> key, msg |-> msg,
     suffix |-> suffix]

\* Length in bytes: a Schnorr signature is 64 bytes, a DER ECDSA signature
\* 70 to 72 (71 here), a hash160 20, a script or control block at least 33.
ByteLen(b) ==
    Len(b.suffix) +
    (CASE b.kind = "sig" /\ b.scheme = "schnorr" -> 64
       [] b.kind = "sig" /\ b.scheme = "ecdsa" -> 71
       [] b.kind = "pubkey_hash" -> 20
       [] OTHER -> 33)

\* The byte of a sighash type.
SighashTypeByte(hash_ty) == IF hash_ty = "All" THEN 1 ELSE 0

----------------------------------------------------------------------------
\* process_recipients: the TxOut of every output, or a panic.

RecipientScript(output) ==
    CASE output.to_recipient = "script_pubkey" -> [ok |-> TRUE, script |-> "raw"]
      [] output.to_recipient = "p2sh" -> [ok |-> FALSE, script |-> ""]
      [] output.to_recipient = "p2pkh" -> [ok |-> TRUE, script |-> "p2pkh"]
      [] output.to_recipient = "p2wsh" -> [ok |-> FALSE, script |-> ""]
      [] output.to_recipient = "p2wpkh" -> [ok |-> TRUE, script |-> "v0_p2wpkh"]
      [] output.to_recipient = "p2tr_key_path" ->
            [ok |-> TRUE, script |-> "v1_p2tr"]
      [] output.to_recipient = "p2tr_script_path" ->
            [ok |-> TRUE, script |-> "v1_p2tr_node"]
      [] OTHER -> [ok |-> FALSE, script |-> ""]

process_recipients(outputs) ==
    LET r == [i \in 1..Len(outputs) |-> RecipientScript(outputs[i])] IN
    IF \E i \in 1..Len(outputs) : ~r[i].ok
    THEN [ok |-> FALSE, utxo_outputs |-> <<>>]
    ELSE [ok |-> TRUE,
          utxo_outputs |-> [i \in 1..Len(outputs) |->
              [value |-> outputs[i].amount, script_pubkey |-> r[i].script]]]

----------------------------------------------------------------------------
\* preimage_hashes: classification of the inputs.

\* The match on input.variant: (sighash_method, script_pubkey) and leaf_hash.
\* A TapLeafHash is a 32-byte digest, here the one-element <<"TapLeafHash">>.
ClassifyInput(input) ==
    CASE input.variant = "p2pkh" ->
            [ok |-> TRUE, sighash_method |-> "Legacy",
             script_pubkey |-> "p2pkh", leaf_hash |-> <<>>]
      [] input.variant = "p2wpkh" ->
            [ok |-> TRUE, sighash_method |-> "Segwit",
             script_pubkey |-> "v0_p2wpkh", leaf_hash |-> <<>>]
      [] input.variant = "p2tr_key_path" ->
            [ok |-> TRUE, sighash_method |-> "Taproot",
             script_pubkey |-> "v1_p2tr_tweaked", leaf_hash |-> <<>>]
      [] input.variant = "p2tr_script_path" ->
            [ok |-> TRUE, sighash_method |-> "Taproot",
             script_pubkey |-> "payload", leaf_hash |-> <<"TapLeafHash">>]
      [] OTHER ->
            [ok |-> FALSE, sighash_method |-> "", script_pubkey |-> "",
             leaf_hash |-> <<>>]

\* A TxIn that carries a leaf hash for every taproot input.
TxInLeafHashForTaproot(input) ==
    LET c == ClassifyInput(input) IN
    [txid |-> input.txid, vout |-> input.vout, amount |-> input.amount,
     script_pubkey |-> c.script_pubkey, sighash_method |-> c.sighash_method,
     sighash |-> "All",
     leaf_hash |-> IF c.sighash_method = "Taproot" THEN <<"TapLeafHash">>
                   ELSE <<>>,
     one_prevout |-> input.one_prevout]

\* The UtxoProto::TxIn pushed for an input.
TxIn(input) ==
    LET c == ClassifyInput(input) IN
    [txid |-> input.txid, vout |-> input.vout, amount |-> input.amount,
     script_pubkey |-> c.script_pubkey, sighash_method |-> c.sighash_method,
     sighash |-> "All", leaf_hash |-> c.leaf_hash,
     one_prevout |-> input.one_prevout]

----------------------------------------------------------------------------
\* preimage_hashes: selection of the inputs.

saturating_sub(a, b) == IF a >= b THEN a - b ELSE 0

\* Vec::sort_by with the comparison of the amounts: a stable ascending sort.
RECURSIVE InsertByAmount(_, _)
InsertByAmount(x, s) ==
    IF s = <<>> THEN <<x>>
    ELSE IF x.amount < Head(s).amount THEN <<x>> \o s
    ELSE <<Head(s)>> \o InsertByAmount(x, Tail(s))

RECURSIVE sort_by(_)
sort_by(s) ==
    IF s = <<>> THEN <<>>
    ELSE InsertByAmount(s[Len(s)], sort_by(SubSeq(s, 1, Len(s) - 1)))

\* The closure of take_while: what is left of remaining after this input.
TakeWhileStep(remaining, input) == saturating_sub(remaining, input.amount)

\* The closure's answer: keep taking while remaining is not zero.
TakeWhilePredicate(remaining) == remaining # 0

\* into_iter().take_while(closure).collect(): the closure runs on the inputs
\* in order, the first input it answers false for included, and the inputs
\* before that one are collected.
RECURSIVE take_while(_, _)
take_while(inputs, remaining) ==
    IF inputs = <<>> THEN [taken |-> <<>>, remaining |-> remaining]
    ELSE LET r == TakeWhileStep(remaining, Head(inputs)) IN
         IF TakeWhilePredicate(r)
         THEN LET rest == take_while(Tail(inputs), r) IN
              [taken |-> <<Head(inputs)>> \o rest.taken,
               remaining |-> rest.remaining]
         ELSE [taken |-> <<>>, remaining |-> r]

\* The match on proto.input_selector: the inputs kept and remaining after it.
SelectInputs(selector, utxo_inputs, total_spent) ==
    IF selector = "AutomaticAscending"
    THEN LET t == take_while(sort_by(utxo_inputs), total_spent) IN
         [utxo_inputs |-> t.taken, remaining |-> t.remaining]
    ELSE [utxo_inputs |-> utxo_inputs, remaining |-> total_spent]

----------------------------------------------------------------------------
\* preimage_hashes.

\* convert_locktime: the same variant and value in the other protobuf type.
convert_locktime(val) ==
    CASE val.kind = "blocks" -> [kind |-> "blocks", value |-> val.value]
      [] val.kind = "seconds" -> [kind |-> "seconds", value |-> val.value]
      [] OTHER -> [kind |-> "None", value |-> 0]

\* nLockTime of a lock_time oneof: 0 when none is given.
LockTimeValue(lock_time) ==
    IF lock_time.kind = "None" THEN 0 ELSE lock_time.value

\* tw_utxo::compiler::Compiler::preimage_hashes: one sighash per input of the
\* UtxoProto::SigningInput, parallel to its inputs, by each input's method.
Compiler_preimage_hashes(utxo_signing) ==
    [i \in 1..Len(utxo_signing.inputs) |->
        [sighash |-> [method |-> utxo_signing.inputs[i].sighash_method,
                      txid |-> utxo_signing.inputs[i].txid,
                      vout |-> utxo_signing.inputs[i].vout,
                      lock_time |-> LockTimeValue(utxo_signing.lock_time)],
         signing_method |-> utxo_signing.inputs[i].sighash_method]]

PreSigningOutput(status, error, sighashes, utxo_inputs, utxo_outputs) ==
    [status |-> status, error |-> error, sighashes |-> sighashes,
     utxo_inputs |-> utxo_inputs, utxo_outputs |-> utxo_outputs]

NoPreSigningOutput == PreSigningOutput("none", "none", <<>>, <<>>, <<>>)

\* A call that panicked returns nothing.
PanicPreSigningOutput == PreSigningOutput("panic", "none", <<>>, <<>>, <<>>)

preimage_hashes(p) ==
    LET rec == process_recipients(p.outputs)
        total_spent == SumSeq([i \in 1..Len(rec.utxo_outputs) |->
                                  rec.utxo_outputs[i].value])
        classified == [i \in 1..Len(p.inputs) |-> TxIn(p.inputs[i])]
        sel == SelectInputs(p.input_selector, classified, total_spent)
        utxo_signing == [version |-> p.version,
                         lock_time |-> convert_locktime(p.lock_time),
                         inputs |-> sel.utxo_inputs,
                         outputs |-> rec.utxo_outputs]
    IN  IF ~rec.ok THEN PanicPreSigningOutput
        ELSE IF \E i \in 1..Len(p.inputs) : ~ClassifyInput(p.inputs[i]).ok
        THEN PanicPreSigningOutput
        ELSE IF sel.remaining # 0 THEN PanicPreSigningOutput
        ELSE PreSigningOutput("returned", "OK",
                              Compiler_preimage_hashes(utxo_signing),
                              sel.utxo_inputs, rec.utxo_outputs)

----------------------------------------------------------------------------
\* Signatures: bitcoin::ecdsa::Signature and bitcoin::taproot::Signature.

\* ecdsa::Signature::to_vec / serialize: the DER signature, then the byte of
\* hash_ty, always.
ecdsa_to_vec(sig, hash_ty) ==
    SignatureBytes("ecdsa", sig.key, sig.msg, <<SighashTypeByte(hash_ty)>>)

\* taproot::Signature::to_vec: the 64 bytes of the Schnorr signature, then the
\* byte of hash_ty unless hash_ty is Default.
taproot_to_vec(sig, hash_ty) ==
    SignatureBytes("schnorr", sig.key, sig.msg,
                   IF hash_ty = "Default" THEN <<>>
                   ELSE <<SighashTypeByte(hash_ty)>>)

\* ecdsa::Signature::from_slice: the last byte is the sighash type, the rest
\* must be a DER signature.
ecdsa_from_slice(b) ==
    IF b.kind = "sig" /\ b.scheme = "ecdsa" /\ Len(b.suffix) = 1
    THEN [ok |-> TRUE, sig |-> [key |-> b.key, msg |-> b.msg],
          hash_ty |-> IF b.suffix[1] = 1 THEN "All" ELSE "Default"]
    ELSE [ok |-> FALSE, sig |-> [key |-> "", msg |-> NoMsg], hash_ty |-> ""]

\* taproot::Signature::from_slice: 64 bytes are a signature of type Default,
\* 65 bytes a signature and the byte of its type, any other length an error.
taproot_from_slice(b) ==
    CASE ByteLen(b) = 64 ->
            [ok |-> TRUE, sig |-> [key |-> b.key, msg |-> b.msg],
             hash_ty |-> "Default"]
      [] ByteLen(b) = 65 ->
            [ok |-> TRUE, sig |-> [key |-> b.key, msg |-> b.msg],
             hash_ty |-> IF b.suffix[1] = 1 THEN "All" ELSE "Default"]
      [] OTHER ->
            [ok |-> FALSE, sig |-> [key |-> "", msg |-> NoMsg], hash_ty |-> ""]

----------------------------------------------------------------------------
\* compile.

TxInClaim(input, script_sig, witness) ==
    [txid |-> input.txid, vout |-> input.vout, sequence |-> 0,
     script_sig |-> script_sig, witness_items |-> witness]

\* A witness of a p2tr-script-path claim with the last two items exchanged.
ScriptPathWitnessSwapped(sig, payload, control_block) ==
    <<sig, control_block, payload>>

\* The three pushes onto the witness of a p2tr-script-path claim.
ScriptPathWitness(sig, payload, control_block) ==
    <<sig, payload, control_block>>

\* The match on input.variant: (script_sig, witness) of one input from its
\* signature, or a panic (ok is FALSE). script_sig is the sequence of the
\* pushes of the script.
BuildClaim(input, sig_slice) ==
    LET fail == [ok |-> FALSE, script_sig |-> <<>>, witness |-> <<>>]
        e == ecdsa_from_slice(sig_slice)
        t == taproot_from_slice(sig_slice)
    IN  CASE input.variant = "p2pkh" ->
                IF ~e.ok THEN fail
                ELSE [ok |-> TRUE,
                      script_sig |-> <<ecdsa_to_vec(e.sig, e.hash_ty),
                                       Bytes("pubkey_hash")>>,
                      witness |-> <<>>]
          [] input.variant = "p2wpkh" ->
                IF ~e.ok THEN fail
                ELSE [ok |-> TRUE, script_sig |-> <<>>,
                      witness |-> <<ecdsa_to_vec(e.sig, e.hash_ty),
                                    Bytes("pubkey_hash")>>]
          [] input.variant = "p2tr_key_path" ->
                IF ~t.ok THEN fail
                ELSE [ok |-> TRUE, script_sig |-> <<>>,
                      witness |-> <<taproot_to_vec(t.sig, t.hash_ty)>>]
          [] input.variant = "p2tr_script_path" ->
                IF ~t.ok THEN fail
                ELSE [ok |-> TRUE, script_sig |-> <<>>,
                      witness |-> ScriptPathWitness(
                                      taproot_to_vec(t.sig, t.hash_ty),
                                      Bytes("payload"),
                                      Bytes("control_block"))]
          [] input.variant = "custom" ->
                [ok |-> TRUE, script_sig |-> <<Bytes("custom_script_sig")>>,
                 witness |-> <<Bytes("custom_witness_item")>>]
          [] OTHER -> fail

\* tw_utxo::compiler::Compiler::compile: the serialized transaction, with the
\* segwit marker and flag when an input has a witness. The bytes are modelled
\* by the one-element sequence of what they encode.
Compiler_compile(pre) ==
    <<[version |-> pre.version,
       segwit |-> \E i \in 1..Len(pre.inputs) :
                      pre.inputs[i].witness_items # <<>>,
       inputs |-> pre.inputs,
       outputs |-> pre.outputs,
       lock_time |-> LockTimeValue(pre.lock_time)]>>

SigningOutput(status, error, encoded, transaction_id) ==
    [status |-> status, error |-> error, encoded |-> encoded,
     transaction_id |-> transaction_id, fee |-> 0]

NoSigningOutput == SigningOutput("none", "none", <<>>, <<>>)

\* A call that panicked returns nothing.
PanicSigningOutput == SigningOutput("panic", "none", <<>>, <<>>)

\* The length check of compile: the vectors it compares.
SignatureCountMatches(p, sigs) == Len(p.inputs) = Len(sigs)

\* The inputs compile builds its claims from.
CompileInputs(p) == p.inputs

compile(p, sigs) ==
    LET panic == [out |-> PanicSigningOutput, claims |-> <<>>]
        inputs == CompileInputs(p)
        built == [i \in 1..Len(inputs) |-> BuildClaim(inputs[i], sigs[i])]
        claims == [i \in 1..Len(inputs) |->
                      TxInClaim(inputs[i], built[i].script_sig,
                                built[i].witness)]
        rec == process_recipients(p.outputs)
        utxo_preserializtion ==
            [version |-> p.version,
             lock_time |-> [kind |-> "blocks", value |-> 0],
             inputs |-> claims, outputs |-> rec.utxo_outputs]
    IN  IF ~SignatureCountMatches(p, sigs) THEN panic
        ELSE IF \E i \in 1..Len(inputs) : ~built[i].ok THEN panic
        ELSE IF ~rec.ok THEN panic
        ELSE [out |-> SigningOutput("returned", "OK",
                                    Compiler_compile(utxo_preserializtion),
                                    <<>>),
              claims |-> claims]

----------------------------------------------------------------------------
\* sign.

\* A signer that tap-tweaks the key for every taproot input.
SignEntryTweaksEveryTaproot(entry, utxo_in) ==
    IF entry.signing_method \in {"Legacy", "Segwit"}
    THEN ecdsa_to_vec([key |-> "untweaked", msg |-> entry.sighash], "All")
    ELSE taproot_to_vec([key |-> "tap_tweaked", msg |-> entry.sighash], "All")

\* The signature sign makes for one (sighash entry, selected input) pair.
\* The key is the request's key pair ("untweaked") or that key pair
\* tap-tweaked with no merkle root ("tap_tweaked").
SignEntry(entry, utxo_in) ==
    IF entry.signing_method \in {"Legacy", "Segwit"}
    THEN ecdsa_to_vec([key |-> "untweaked", msg |-> entry.sighash], "All")
    ELSE IF utxo_in.leaf_hash = <<>>
    THEN taproot_to_vec([key |-> "tap_tweaked", msg |-> entry.sighash], "All")
    ELSE taproot_to_vec([key |-> "untweaked", msg |-> entry.sighash], "All")

Min(a, b) == IF a <= b THEN a ELSE b

sign(p) ==
    LET pre == preimage_hashes(p)
        n == Min(Len(pre.sighashes), Len(pre.utxo_inputs))
        sigs == [i \in 1..n |-> SignEntry(pre.sighashes[i], pre.utxo_inputs[i])]
        c == compile(p, sigs)
    IN  IF pre.status = "panic"
        THEN [pre |-> pre, sigs |-> <<>>, out |-> PanicSigningOutput,
              claims |-> <<>>]
        ELSE [pre |-> pre, sigs |-> sigs, out |-> c.out, claims |-> c.claims]

----------------------------------------------------------------------------
\* The calls. Every call is independent of the calls before it (the entry
\* points keep no state), so a behaviour is one request and one call on it.

\* The signatures a caller of compile hands in: n of them, each made outside
\* this code; "matching" gives every declared input the scheme of its variant
\* (a 64-byte Schnorr signature of type Default for taproot).
SigStyles == {"matching", "ecdsa", "schnorr_all"}

ExternalSignature(p, i, style) ==
    LET ecdsa == ecdsa_to_vec([key |-> "external", msg |-> NoMsg], "All")
        taproot == [key |-> "external", msg |-> NoMsg]
    IN  CASE style = "ecdsa" -> ecdsa
          [] style = "schnorr_all" -> taproot_to_vec(taproot, "All")
          [] OTHER ->
                IF i <= Len(p.inputs) /\
                   p.inputs[i].variant \in {"p2tr_key_path", "p2tr_script_path"}
                THEN taproot_to_vec(taproot, "Default")
                ELSE ecdsa

Init ==
    /\ proto \in Requests
    /\ op = "idle"
    /\ pre_signed = NoPreSigningOutput
    /\ signatures = <<>>
    /\ utxo_input_claims = <<>>
    /\ signing_output = NoSigningOutput

PreimageHashes ==
    /\ op = "idle"
    /\ op' = "preimage_hashes"
    /\ pre_signed' = preimage_hashes(proto)
    /\ signatures' = <<>>
    /\ utxo_input_claims' = <<>>
    /\ signing_output' = NoSigningOutput
    /\ UNCHANGED proto

Sign ==
    LET r == sign(proto) IN
    /\ op = "idle"
    /\ op' = "sign"
    /\ pre_signed' = r.pre
    /\ signatures' = r.sigs
    /\ utxo_input_claims' = r.claims
    /\ signing_output' = r.out
    /\ UNCHANGED proto

Compile ==
    /\ op = "idle"
    /\ \E n \in 0..MaxInputs, style \in SigStyles :
        LET sigs == [i \in 1..n |-> ExternalSignature(proto, i, style)]
            r == compile(proto, sigs)
        IN  /\ op' = "compile"
            /\ pre_signed' = NoPreSigningOutput
            /\ signatures' = sigs
            /\ utxo_input_claims' = r.claims
            /\ signing_output' = r.out
            /\ UNCHANGED proto

Next == PreimageHashes \/ Sign \/ Compile

Spec == Init /\ [][Next]_vars

----------------------------------------------------------------------------
\* What the claims speak of.

UnsupportedVariants == {"p2sh", "p2wsh"}

\* The request holds a p2sh or p2wsh builder, as an input or as a recipient.
HasUnsupportedVariant(p) ==
    \/ \E i \in 1..Len(p.inputs) : p.inputs[i].variant \in UnsupportedVariants
    \/ \E i \in 1..Len(p.outputs) :
           p.outputs[i].to_recipient \in UnsupportedVariants

\* Every input is one of the four implemented builders and every recipient
\* is a raw script or one of the four implemented builders.
Implemented(p) ==
    /\ \A i \in 1..Len(p.inputs) :
           p.inputs[i].variant \in
               {"p2pkh", "p2wpkh", "p2tr_key_path", "p2tr_script_path"}
    /\ \A i \in 1..Len(p.outputs) :
           p.outputs[i].to_recipient \in
               {"script_pubkey", "p2pkh", "p2wpkh", "p2tr_key_path",
                "p2tr_script_path"}

\* The sum of the output amounts of the request: the target of the selection.
Target(p) == SumSeq(Amounts(p.outputs))

\* The smallest k such that the k smallest-amount inputs cover the target.
SmallestCover(p) ==
    LET sorted == sort_by(p.inputs)
        Covers(k) == SumSeq(Amounts(SubSeq(sorted, 1, k))) >= Target(p)
    IN  CHOOSE k \in 0..Len(sorted) :
            Covers(k) /\ \A j \in 0..(k - 1) : ~Covers(j)

\* The outpoints (txid, vout) of a sequence of inputs or claims, in order.
Outpoints(s) == [i \in 1..Len(s) |-> <<s[i].txid, s[i].vout>>]

\* The call returned a response (it did not panic).
PreReturned == pre_signed.status = "returned"
OutReturned == signing_output.status = "returned"

\* C1: when preimage_hashes returns without error the selected inputs'
\* amounts sum to at least the target; when all the inputs together are below
\* the target, it returns a response with error InsufficientFunds and no
\* sighashes (it does not abort).
C1_SumCheck ==
    (op = "preimage_hashes" /\ Implemented(proto)) =>
        /\ (PreReturned /\ pre_signed.error = "OK") =>
               SumSeq(Amounts(pre_signed.utxo_inputs)) >= Target(proto)
        /\ SumSeq(Amounts(proto.inputs)) < Target(proto) =>
               /\ PreReturned
               /\ pre_signed.error = "InsufficientFunds"
               /\ pre_signed.sighashes = <<>>

\* C2: under AutomaticAscending, when the inputs cover the target,
\* preimage_hashes selects exactly the first k inputs of the ascending order,
\* k the smallest number of smallest-amount inputs that cover the target (the
\* input that reaches the target included).
C2_AscendingMinimalPrefix ==
    (/\ op = "preimage_hashes"
     /\ Implemented(proto)
     /\ proto.input_selector = "AutomaticAscending"
     /\ SumSeq(Amounts(proto.inputs)) >= Target(proto)) =>
        /\ PreReturned
        /\ Outpoints(pre_signed.utxo_inputs) =
               Outpoints(SubSeq(sort_by(proto.inputs), 1, SmallestCover(proto)))

\* C3: under UseAll, when the inputs cover the target, preimage_hashes
\* succeeds and reports every input in declared order; it fails, with
\* InsufficientFunds, only when the inputs are below the target.
C3_UseAllKeepsEveryInput ==
    (/\ op = "preimage_hashes"
     /\ Implemented(proto)
     /\ proto.input_selector = "UseAll") =>
        /\ SumSeq(Amounts(proto.inputs)) >= Target(proto) =>
               /\ PreReturned
               /\ pre_signed.error = "OK"
               /\ Outpoints(pre_signed.utxo_inputs) = Outpoints(proto.inputs)
        /\ ~(PreReturned /\ pre_signed.error = "OK") =>
               /\ SumSeq(Amounts(proto.inputs)) < Target(proto)
               /\ PreReturned
               /\ pre_signed.error = "InsufficientFunds"

\* C4: on a request with a p2sh or p2wsh builder, preimage_hashes, sign and
\* compile each return a response with error UnsupportedVariant and empty
\* encoded and transaction_id; none aborts.
C4_UnsupportedVariantIsReported ==
    HasUnsupportedVariant(proto) =>
        /\ op = "preimage_hashes" =>
               PreReturned /\ pre_signed.error = "UnsupportedVariant"
        /\ op \in {"sign", "compile"} =>
               /\ OutReturned
               /\ signing_output.error = "UnsupportedVariant"
               /\ signing_output.encoded = <<>>
               /\ signing_output.transaction_id = <<>>

\* C5: compile fails with SignatureCountMismatch exactly when the number of
\* signatures differs from the number of inputs the selector selects for the
\* request (not the number declared).
C5_SignatureCountMismatch ==
    (/\ op = "compile"
     /\ Implemented(proto)
     /\ preimage_hashes(proto).status = "returned") =>
        ((OutReturned /\ signing_output.error = "SignatureCountMismatch")
            <=> Len(signatures) # Len(preimage_hashes(proto).utxo_inputs))

\* The 32-byte double-SHA256 of the legacy serialization of an encoded
\* transaction: the witnesses, the marker and the flag stripped.
TransactionId(encoded) ==
    IF encoded = <<>> THEN <<>>
    ELSE <<[version |-> encoded[1].version,
            segwit |-> FALSE,
            inputs |-> [i \in 1..Len(encoded[1].inputs) |->
                           [encoded[1].inputs[i] EXCEPT !.witness_items = <<>>]],
            outputs |-> encoded[1].outputs,
            lock_time |-> encoded[1].lock_time]>>

\* C6: when sign or compile succeeds, transaction_id is the double-SHA256 of
\* the legacy serialization of the transaction in encoded; it is not empty.
C6_TransactionIdOfEncoded ==
    (op \in {"sign", "compile"} /\ OutReturned /\ signing_output.error = "OK") =>
        /\ signing_output.transaction_id # <<>>
        /\ signing_output.transaction_id = TransactionId(signing_output.encoded)

\* C7: for every p2tr-key-path input signed by sign, witness item 0 is the
\* 64-byte Schnorr signature with no sighash-type byte appended.
C7_KeyPathSignatureIs64Bytes ==
    (op = "sign" /\ OutReturned) =>
        \A i \in 1..Len(utxo_input_claims) :
            proto.inputs[i].variant = "p2tr_key_path" =>
                /\ utxo_input_claims[i].witness_items # <<>>
                /\ ByteLen(utxo_input_claims[i].witness_items[1]) = 64
                /\ utxo_input_claims[i].witness_items[1].suffix = <<>>

\* The shape of the claim of a builder input of a variant, built from sig.
ClaimShape(variant, claim, sig) ==
    CASE variant = "p2pkh" ->
            /\ Len(claim.script_sig) = 2
            /\ claim.script_sig[1] = sig
            /\ claim.script_sig[2].kind \in {"pubkey", "pubkey_hash"}
            /\ claim.witness_items = <<>>
      [] variant = "p2wpkh" ->
            /\ claim.script_sig = <<>>
            /\ Len(claim.witness_items) = 2
            /\ claim.witness_items[1] = sig
            /\ claim.witness_items[2].kind = "pubkey_hash"
      [] variant = "p2tr_key_path" ->
            /\ claim.script_sig = <<>>
            /\ claim.witness_items = <<sig>>
      [] variant = "p2tr_script_path" ->
            /\ claim.script_sig = <<>>
            /\ Len(claim.witness_items) = 3
            /\ claim.witness_items[1] = sig
            /\ claim.witness_items[2].kind = "payload"
            /\ claim.witness_items[3].kind = "control_block"
      [] OTHER -> FALSE

\* C8: for every builder input, compile builds the claim of the shape of its
\* variant: p2pkh a script_sig of two pushes (signature, then pubkey or hash)
\* and no witness; p2wpkh no script_sig and witness [sig, pubkey-hash];
\* p2tr-key-path no script_sig and witness [sig]; p2tr-script-path no
\* script_sig and witness [sig, script-payload, control-block].
C8_ClaimShapes ==
    (op \in {"sign", "compile"} /\ OutReturned) =>
        /\ Len(utxo_input_claims) = Len(proto.inputs)
        /\ signing_output.encoded[1].inputs = utxo_input_claims
        /\ \A i \in 1..Len(proto.inputs) :
               proto.inputs[i].variant \in BuilderInputVariants =>
                   ClaimShape(proto.inputs[i].variant, utxo_input_claims[i],
                              signatures[i])

\* compile returned a transaction that spends a p2pkh input and a
\* p2tr-script-path input, the witness of the latter of three items.
C8_Witness ==
    /\ op = "compile"
    /\ OutReturned
    /\ \E i, j \in 1..Len(proto.inputs) :
           /\ proto.inputs[i].variant = "p2pkh"
           /\ Len(utxo_input_claims[i].script_sig) = 2
           /\ proto.inputs[j].variant = "p2tr_script_path"
           /\ Len(utxo_input_claims[j].witness_items) = 3

\* The sighash method and the emptiness of the leaf hash of each variant.
MethodOfVariant(variant) ==
    CASE variant = "p2pkh" -> "Legacy"
      [] variant = "p2wpkh" -> "Segwit"
      [] OTHER -> "Taproot"

\* C9: the classification of a builder input depends only on its variant:
\* p2pkh gives Legacy, p2wpkh Segwit, p2tr-key-path and p2tr-script-path
\* Taproot; a p2tr-script-path input carries a non-empty leaf_hash and every
\* other variant an empty one.
C9_ClassificationByVariant ==
    (op \in {"preimage_hashes", "sign"} /\ PreReturned) =>
        /\ Len(pre_signed.sighashes) = Len(pre_signed.utxo_inputs)
        /\ \A i \in 1..Len(pre_signed.utxo_inputs) :
               LET u == pre_signed.utxo_inputs[i]
                   variant == proto.inputs[u.vout].variant
               IN  /\ variant \in BuilderInputVariants
                   /\ u.sighash_method = MethodOfVariant(variant)
                   /\ pre_signed.sighashes[i].signing_method =
                          MethodOfVariant(variant)
                   /\ (u.leaf_hash # <<>>) <=> (variant = "p2tr_script_path")

\* preimage_hashes returned a p2tr-script-path input with a leaf hash beside
\* a p2tr-key-path input without one.
C9_Witness ==
    /\ op = "preimage_hashes"
    /\ PreReturned
    /\ \E i, j \in 1..Len(pre_signed.utxo_inputs) :
           /\ proto.inputs[pre_signed.utxo_inputs[i].vout].variant =
                  "p2tr_script_path"
           /\ pre_signed.utxo_inputs[i].leaf_hash # <<>>
           /\ proto.inputs[pre_signed.utxo_inputs[j].vout].variant =
                  "p2tr_key_path"
           /\ pre_signed.utxo_inputs[j].leaf_hash = <<>>

\* C10: in sign, whenever preimage_hashes succeeds, the i-th signature
\* handed to compile signs the sighash of the i-th selected input and compile
\* builds the i-th claim from that same selected input, also when
\* AutomaticAscending reorders or drops declared inputs: sign returns a
\* signed transaction over exactly the selected inputs.
C10_SignOverSelectedInputs ==
    (op = "sign" /\ PreReturned) =>
        /\ OutReturned
        /\ Len(signatures) = Len(pre_signed.utxo_inputs)
        /\ \A i \in 1..Len(signatures) :
               signatures[i].msg = pre_signed.sighashes[i].sighash
        /\ Outpoints(utxo_input_claims) = Outpoints(pre_signed.utxo_inputs)

\* The signature scheme and the key of each variant.
SchemeOfVariant(variant) ==
    IF variant \in {"p2pkh", "p2wpkh"} THEN "ecdsa" ELSE "schnorr"

KeyOfVariant(variant) ==
    IF variant = "p2tr_key_path" THEN "tap_tweaked" ELSE "untweaked"

\* C11: in sign, the scheme and the key of a signature are fixed by the
\* variant of the input it is made for: ECDSA with the untweaked key for
\* p2pkh and p2wpkh, Schnorr with the key tap-tweaked with an empty merkle
\* root for p2tr-key-path, Schnorr with the untweaked key for
\* p2tr-script-path.
C11_SchemeAndKeyByVariant ==
    (op = "sign" /\ PreReturned) =>
        /\ Len(signatures) = Len(pre_signed.utxo_inputs)
        /\ \A i \in 1..Len(signatures) :
               LET variant ==
                       proto.inputs[pre_signed.utxo_inputs[i].vout].variant
               IN  /\ signatures[i].kind = "sig"
                   /\ signatures[i].scheme = SchemeOfVariant(variant)
                   /\ signatures[i].key = KeyOfVariant(variant)

\* sign signed a p2tr-key-path input with the tweaked key, a
\* p2tr-script-path input with the untweaked key, both with Schnorr.
C11_Witness ==
    /\ op = "sign"
    /\ PreReturned
    /\ \E i, j \in 1..Len(signatures) :
           /\ proto.inputs[pre_signed.utxo_inputs[i].vout].variant =
                  "p2tr_key_path"
           /\ signatures[i].scheme = "schnorr"
           /\ signatures[i].key = "tap_tweaked"
           /\ proto.inputs[pre_signed.utxo_inputs[j].vout].variant =
                  "p2tr_script_path"
           /\ signatures[j].scheme = "schnorr"
           /\ signatures[j].key = "untweaked"

\* C12: the lock time compile puts into the transaction it serializes is the
\* lock time preimage_hashes passed to the sighash computation for the same
\* request (its block height or unix seconds, 0 when it says none), so the
\* signatures sign makes commit to the lock time of the emitted transaction.
C12_LockTimeOfTransaction ==
    (op \in {"sign", "compile"} /\ OutReturned) =>
        /\ signing_output.encoded[1].lock_time =
               LockTimeValue(convert_locktime(proto.lock_time))
        /\ op = "sign" =>
               \A i \in 1..Len(signatures) :
                   signatures[i].msg.lock_time =
                       signing_output.encoded[1].lock_time

====
